---- MODULE Spec2Model ----
(***************************************************************************)
(* A model of worker.py: a RabbitMQ consumer that, for every job message,  *)
(* runs process_webhook_job (DocuSign custom fields -> Salesforce query    *)
(* -> DocuSign document -> Salesforce attachment) and then acks or nacks   *)
(* the delivery.                                                           *)
(*                                                                         *)
(* The process is single threaded.  pc is its position:                    *)
(*   "import"            module-level configuration (lines 14-37)          *)
(*   "main"              about to open the broker connection (149-151)     *)
(*   "consuming"         inside channel.start_consuming() (168-170)        *)
(*   "job_token" ..      inside callback/process_webhook_job, before the   *)
(*   "job_attach"        external call the name says                       *)
(*   "ack"               process_webhook_job returned, line 161 is next    *)
(*   "conn_error_sleep"  in the AMQPConnectionError handler (177-179)      *)
(*   "config_error", "crashed", "interrupted", "exited"   process over     *)
(***************************************************************************)
EXTENDS Integers, Sequences, FiniteSets, TLC

(* ---------------------------- bounds ----------------------------------- *)
\* how many messages producers place on the queue in one behaviour
MaxMsgs == 2
\* longest textCustomFields list the e-signature API answers with
MaxFields == 2

(* --------------------------- constants --------------------------------- *)
None == "None"
COMPLETED == "envelope-completed"
CONTRACT_FIELD == "contractNumber"
\* channel.basic_qos(prefetch_count=1)
prefetch_count_two == 1 + 1
prefetch_count == 1

\* values os.environ.get('RABBITMQ_URL') can have
EnvUrls == {None, "", "amqp://broker"}

(* ------------------------- message bodies ------------------------------ *)
\* A body is the text of a message; json says what json.loads makes of it,
\* the other fields describe the JSON object when it is one.
Body(json, event, data, envelopeId) ==
    [json |-> json, event |-> event, data |-> data, envelopeId |-> envelopeId]

Bodies ==
    { Body("invalid", None, "absent", None),          \* not JSON at all
      Body("array", None, "absent", None),            \* []
      Body("object", None, "absent", None),           \* {}
      Body("object", None, "object", "E1"),           \* {"data":{"envelopeId":"E1"}}
      Body("object", "envelope-sent", "object", "E1"),
      Body("object", COMPLETED, "absent", None),      \* no data key
      Body("object", COMPLETED, "string", None),      \* data is not an object
      Body("object", COMPLETED, "object", None),      \* data without envelopeId
      Body("object", COMPLETED, "object", "E1") }

\* json.loads(body): raises JSONDecodeError on text that is not JSON
json_loads(body) ==
    IF body.json = "invalid"
    THEN [raised |-> TRUE, value |-> body]
    ELSE [raised |-> FALSE, value |-> body]

\* webhook_data.get(...) exists only on a dict (AttributeError otherwise)
HasGet(webhook_data) == webhook_data.json = "object"

\* webhook_data.get('event') != 'envelope-completed'  (line 82)
IgnoredEventOrMissing(webhook_data) ==
    webhook_data.event # COMPLETED /\ webhook_data.event # None
IgnoredEvent(webhook_data) == webhook_data.event # COMPLETED

\* webhook_data['data']['envelopeId']  (line 87): KeyError / TypeError
EnvelopeIdRaisesOnlyWithoutData(webhook_data) == webhook_data.data # "object"
EnvelopeIdRaises(webhook_data) ==
    \/ webhook_data.data # "object"
    \/ webhook_data.envelopeId = None

(* ---------------------- e-signature API answers ------------------------ *)
FieldNames == {CONTRACT_FIELD, "poNumber"}
FieldValues == {"", "C-100"}
Fields == [name : FieldNames, value : FieldValues]

RECURSIVE SeqsUpTo(_, _)
SeqsUpTo(S, n) ==
    IF n = 0 THEN {<<>>}
    ELSE LET shorter == SeqsUpTo(S, n - 1)
         IN  shorter \cup {Append(s, x) : s \in {t \in shorter : Len(t) = n - 1}, x \in S}

\* response.json() of the custom_fields GET: with or without textCustomFields
CustomFieldAnswers ==
    {[hasText |-> FALSE, textCustomFields |-> <<>>]}
    \cup {[hasText |-> TRUE, textCustomFields |-> fs] : fs \in SeqsUpTo(Fields, MaxFields)}

NoCustomFields == [hasText |-> FALSE, textCustomFields |-> <<>>]

\* lines 100-105: the value of the first field named contractNumber
RECURSIVE ScanFrom(_, _)
ScanFrom(fields, i) ==
    IF i > Len(fields) THEN None
    ELSE IF fields[i].name = CONTRACT_FIELD THEN fields[i].value
    ELSE ScanFrom(fields, i + 1)

\* the scan without the break of line 105: the last matching field wins
RECURSIVE ScanLastFrom(_, _, _)
ScanLastFrom(fields, i, found) ==
    IF i > Len(fields) THEN found
    ELSE IF fields[i].name = CONTRACT_FIELD
    THEN ScanLastFrom(fields, i + 1, fields[i].value)
    ELSE ScanLastFrom(fields, i + 1, found)
scan_contract_number_no_break(custom_fields_data) ==
    IF custom_fields_data.hasText /\ custom_fields_data.textCustomFields # <<>>
    THEN ScanLastFrom(custom_fields_data.textCustomFields, 1, None)
    ELSE None
scan_contract_number(custom_fields_data) ==
    IF custom_fields_data.hasText /\ custom_fields_data.textCustomFields # <<>>
    THEN ScanFrom(custom_fields_data.textCustomFields, 1)
    ELSE None

\* line 107: `if not contract_number` is true of None and of ''
ContractNumberAlwaysFound(contract_number) == TRUE
ContractNumberFound(contract_number) ==
    contract_number # None /\ contract_number # ""

\* documents/combined answers
Docs == { <<77, 97, 110>>, <<37, 80, 68, 70>>, <<77, 97>> }

(* --------------------------- CRM answers ------------------------------- *)
\* sf_client.query(...): totalSize and the records
QueryAnswers ==
    { [totalSize |-> Len(rs), records |-> rs] :
        rs \in { <<>>, <<"0061x">>, <<"0062y">>, <<"0061x", "0062y">> } }
NoQuery == [totalSize |-> 0, records |-> <<>>]

\* line 117: query_result['totalSize'] != 1 is the failure
SingleMatchOrMore(query_result) == query_result.totalSize >= 1
SingleMatch(query_result) == query_result.totalSize = 1

(* ------------------------------ base64 --------------------------------- *)
Alphabet ==
    << "A","B","C","D","E","F","G","H","I","J","K","L","M","N","O","P",
       "Q","R","S","T","U","V","W","X","Y","Z","a","b","c","d","e","f",
       "g","h","i","j","k","l","m","n","o","p","q","r","s","t","u","v",
       "w","x","y","z","0","1","2","3","4","5","6","7","8","9","+","/" >>
Pad == "="
Sextet(n) == Alphabet[n + 1]

\* base64.b64encode(bytes).decode('utf-8'), as a sequence of characters
RECURSIVE b64encode(_)
b64encode(bs) ==
    IF Len(bs) = 0 THEN <<>>
    ELSE IF Len(bs) = 1 THEN
        << Sextet(bs[1] \div 4), Sextet((bs[1] % 4) * 16), Pad, Pad >>
    ELSE IF Len(bs) = 2 THEN
        << Sextet(bs[1] \div 4), Sextet((bs[1] % 4) * 16 + bs[2] \div 16),
           Sextet((bs[2] % 16) * 4), Pad >>
    ELSE
        << Sextet(bs[1] \div 4), Sextet((bs[1] % 4) * 16 + bs[2] \div 16),
           Sextet((bs[2] % 16) * 4 + bs[3] \div 64), Sextet(bs[3] % 64) >>
        \o b64encode(SubSeq(bs, 4, Len(bs)))

\* lines 132-137
attachment_payload_parent_is_number(salesforce_contract_id, contract_number, doc_content_bytes) ==
    [ ParentId    |-> contract_number,
      Name        |-> <<"Signed Contract - ", contract_number, ".pdf">>,
      Body        |-> b64encode(doc_content_bytes),
      ContentType |-> "application/pdf" ]
attachment_payload(salesforce_contract_id, contract_number, doc_content_bytes) ==
    [ ParentId    |-> salesforce_contract_id,
      Name        |-> <<"Signed Contract - ", contract_number, ".pdf">>,
      Body        |-> b64encode(doc_content_bytes),
      ContentType |-> "application/pdf" ]

(* ------------------------------ state ---------------------------------- *)
VARIABLES
    pc,           \* position of the worker process
    env,          \* [RABBITMQ_URL, configOk, serversOk]: the environment and config.ini
    connUp,       \* the broker connection of this process is open
    queue,        \* broker: messages ready in docusign_jobs, [id, body]
    unacked,      \* broker: deliveries not yet acknowledged, [tag, id, body]
    inbox,        \* client: deliveries received and not yet dispatched
    nextTag,      \* broker: delivery tag of the next delivery on the channel
    published,    \* number of messages placed on the queue so far
    acks,         \* the basic_ack / basic_nack calls made on the channel
    log,          \* per delivery tag: message id, how the callback ended, job result
    job,          \* locals of the running callback / process_webhook_job
    attachments,  \* CRM: the Attachment records created
    issued        \* number of tokens and CRM sessions issued so far

vars == << pc, env, connUp, queue, unacked, inbox, nextTag, published,
           acks, log, job, attachments, issued >>

NoPayload ==
    [ ParentId |-> None, Name |-> <<>>, Body |-> <<>>, ContentType |-> None ]

NoJob ==
    [ tag |-> 0, webhook_data |-> Body("invalid", None, "absent", None),
      envelope_id |-> None, bearer |-> 0, sf_client |-> 0,
      fetched |-> FALSE, custom_fields_data |-> NoCustomFields,
      contract_number |-> None,
      queried |-> FALSE, soql_contract_number |-> None, query_result |-> NoQuery,
      salesforce_contract_id |-> None,
      downloaded |-> FALSE, doc_content_bytes |-> <<>>,
      attachment_payload |-> NoPayload,
      calls |-> <<>>, result |-> "none" ]

JobSteps == { "job_token", "job_sf_login", "job_custom_fields",
              "job_sf_query", "job_document", "job_attach" }
InCallback == JobSteps \cup {"ack"}
\* the consumer is registered on the channel (after basic_consume)
Consuming == InCallback \cup {"consuming"}

Init ==
    /\ pc = "import"
    \* configOk: config.ini has the settings read at import (lines 19-29);
    \* serversOk: it has api_server and authorization_server, read by lines 50, 64
    /\ env \in [RABBITMQ_URL : EnvUrls, configOk : BOOLEAN, serversOk : BOOLEAN]
    /\ connUp = FALSE
    /\ queue = <<>>
    /\ unacked = {}
    /\ inbox = <<>>
    /\ nextTag = 1
    /\ published = 0
    /\ acks = <<>>
    /\ log = <<>>
    /\ job = NoJob
    /\ attachments = <<>>
    /\ issued = 0

(* ------------------------------ broker --------------------------------- *)
\* the unacknowledged deliveries in delivery order, as queue entries
RECURSIVE InTagOrder(_)
InTagOrder(ds) ==
    IF ds = {} THEN <<>>
    ELSE LET d == CHOOSE x \in ds : \A y \in ds : x.tag <= y.tag
         IN  <<[id |-> d.id, body |-> d.body]>> \o InTagOrder(ds \ {d})

\* a producer places a message on the queue
Publish ==
    /\ published < MaxMsgs
    /\ \E body \in Bodies :
         queue' = Append(queue, [id |-> published + 1, body |-> body])
    /\ published' = published + 1
    /\ UNCHANGED << pc, env, connUp, unacked, inbox, nextTag, acks, log, job,
                    attachments, issued >>

\* the broker pushes the next ready message to the consumer, as long as the
\* channel holds fewer than prefetch_count unacknowledged deliveries
Deliver ==
    /\ pc \in Consuming
    /\ connUp
    /\ queue # <<>>
    /\ Cardinality(unacked) < prefetch_count
    /\ LET m == Head(queue)
           d == [tag |-> nextTag, id |-> m.id, body |-> m.body]
       IN  /\ unacked' = unacked \cup {d}
           /\ inbox' = Append(inbox, d)
           /\ log' = Append(log, [id |-> m.id, cb |-> "pending", result |-> "none"])
    /\ queue' = Tail(queue)
    /\ nextTag' = nextTag + 1
    /\ UNCHANGED << pc, env, connUp, published, acks, job, attachments, issued >>

\* the connection closes: the broker returns unacknowledged deliveries to the queue
CloseConnection ==
    /\ connUp' = FALSE
    /\ queue' = IF connUp THEN InTagOrder(unacked) \o queue ELSE queue
    /\ unacked' = IF connUp THEN {} ELSE unacked
    /\ inbox' = <<>>

\* the broker becomes unreachable while the worker is connected
ConnectionLost ==
    /\ pc \in Consuming
    /\ connUp
    /\ CloseConnection
    /\ UNCHANGED << pc, env, nextTag, published, acks, log, job, attachments, issued >>

(* ----------------------------- startup --------------------------------- *)
\* lines 15-37: config sections are read and RABBITMQ_URL is checked
LoadConfig ==
    /\ pc = "import"
    /\ pc' = IF env.configOk /\ env.RABBITMQ_URL # None /\ env.RABBITMQ_URL # ""
             THEN "main" ELSE "config_error"
    /\ UNCHANGED << env, connUp, queue, unacked, inbox, nextTag, published,
                    acks, log, job, attachments, issued >>

\* lines 149-170: connect, declare the queue, set prefetch, register the consumer
Connect ==
    /\ pc = "main"
    /\ \E reachable \in BOOLEAN :
         /\ connUp' = reachable
         /\ pc' = IF reachable THEN "consuming" ELSE "conn_error_sleep"
    /\ UNCHANGED << env, queue, unacked, inbox, nextTag, published, acks, log,
                    job, attachments, issued >>

\* start_consuming notices the lost connection: AMQPConnectionError, line 177
NoticeConnectionLost ==
    /\ pc = "consuming"
    /\ ~connUp
    /\ pc' = "conn_error_sleep"
    /\ UNCHANGED << env, connUp, queue, unacked, inbox, nextTag, published,
                    acks, log, job, attachments, issued >>

\* lines 177-179: the handler is the last statement of the script; there is no
\* loop around main()
after_sleep_retry == "main"
after_sleep == "exited"

\* line 179: time.sleep(10), then the process ends
SleepAndExit ==
    /\ pc = "conn_error_sleep"
    /\ pc' = after_sleep
    /\ UNCHANGED << env, connUp, queue, unacked, inbox, nextTag, published,
                    acks, log, job, attachments, issued >>

\* how the callback for the running job ended
EndCallback(how, result) ==
    IF job.tag = 0 THEN log
    ELSE [log EXCEPT ![job.tag].cb = how, ![job.tag].result = result]

\* CTRL+C: KeyboardInterrupt is no Exception, so line 142 does not catch it;
\* line 175 does, and the process ends
Interrupt ==
    /\ pc \in Consuming \cup {"main"}
    /\ pc' = "interrupted"
    /\ log' = EndCallback("interrupted", job.result)
    /\ job' = NoJob
    /\ CloseConnection
    /\ UNCHANGED << env, nextTag, published, acks, attachments, issued >>

(* ----------------------------- callback -------------------------------- *)
\* an external call of this job: the operation and the credential it carries
Call(op, auth) == [op |-> op, auth |-> auth]

\* process_webhook_job returns (or its `except Exception` does, line 144)
Return(j, result) == [j EXCEPT !.result = result]

\* an exception leaves the callback: nothing in main or __main__ handles it
\* (it is neither KeyboardInterrupt nor AMQPConnectionError), the process dies
Crash(tag, result) ==
    /\ pc' = "crashed"
    /\ log' = [log EXCEPT ![tag].cb = "raised", ![tag].result = result]
    /\ job' = NoJob
    /\ CloseConnection

\* lines 155-159 and 80-88: the delivery is dispatched to callback, the body is
\* parsed, process_webhook_job looks at the event and takes the envelope id
Callback ==
    /\ pc = "consuming"
    /\ inbox # <<>>
    /\ LET d == Head(inbox)
           parsed == json_loads(d.body)
           webhook_data == parsed.value
           j == [NoJob EXCEPT !.tag = d.tag, !.webhook_data = webhook_data]
       IN  IF parsed.raised
           THEN \* json.loads raises, process_webhook_job is never called
                Crash(d.tag, "none")
           ELSE IF ~HasGet(webhook_data)
           THEN \* line 82 is outside the try: AttributeError escapes
                Crash(d.tag, "raised")
           ELSE /\ inbox' = Tail(inbox)
                /\ UNCHANGED << log, connUp, queue, unacked >>
                /\ IF IgnoredEvent(webhook_data)
                   THEN /\ job' = Return(j, "true")
                        /\ pc' = "ack"
                   ELSE IF EnvelopeIdRaises(webhook_data)
                   THEN /\ job' = Return(j, "false")
                        /\ pc' = "ack"
                   ELSE /\ job' = [j EXCEPT !.envelope_id = webhook_data.envelopeId]
                        /\ pc' = "job_token"
    /\ UNCHANGED << env, nextTag, published, acks, attachments, issued >>

\* lines 42-55 and 74: request_jwt_user_token and Salesforce(...) are called anew
\* in every job; n credentials were issued before, the answer is the next one
cached_credential(n) == IF n = 0 THEN 1 ELSE n
new_credential(n) == n + 1

\* how get_docusign_api_client can end: config['DOCUSIGN']['api_server'] (line 64)
\* or ['authorization_server'] (line 50) raises KeyError, the key file cannot be
\* read (line 44), the token exchange is rejected (line 47), or all is well
TokenOutcomes(e) ==
    IF e.serversOk THEN {"key_unreadable", "rejected", "ok"} ELSE {"setting_missing"}

\* lines 90, 60-69, 40-58: the private key is read and exchanged for a token
GetDocusignApiClient ==
    /\ pc = "job_token"
    /\ \E outcome \in TokenOutcomes(env) :
         /\ job' = IF outcome \in {"setting_missing", "key_unreadable"}
                   THEN Return(job, "false")
                   ELSE IF outcome = "rejected"
                   THEN Return([job EXCEPT !.calls = Append(@, Call("token", 0))], "false")
                   ELSE [job EXCEPT !.calls = Append(@, Call("token", 0)),
                                    !.bearer = new_credential(issued)]
         /\ issued' = IF outcome = "ok" THEN issued + 1 ELSE issued
         /\ pc' = IF outcome = "ok" THEN "job_sf_login" ELSE "ack"
    /\ UNCHANGED << env, connUp, queue, unacked, inbox, nextTag, published,
                    acks, log, attachments >>

\* lines 91, 71-77: Salesforce(username, password, security_token) logs in
GetSalesforceClient ==
    /\ pc = "job_sf_login"
    /\ \E ok \in BOOLEAN :
         /\ job' = IF ok
                   THEN [job EXCEPT !.calls = Append(@, Call("sf_login", 0)),
                                    !.sf_client = new_credential(issued)]
                   ELSE Return([job EXCEPT !.calls = Append(@, Call("sf_login", 0))],
                               "false")
         /\ issued' = IF ok THEN issued + 1 ELSE issued
         /\ pc' = IF ok THEN "job_custom_fields" ELSE "ack"
    /\ UNCHANGED << env, connUp, queue, unacked, inbox, nextTag, published,
                    acks, log, attachments >>

\* lines 94-111: GET custom_fields, scan for contractNumber
GetCustomFields ==
    /\ pc = "job_custom_fields"
    /\ LET called == [job EXCEPT !.calls = Append(@, Call("get_custom_fields", job.bearer))]
       IN  \/ \* raise_for_status or response.json() raises
              /\ job' = Return(called, "false")
              /\ pc' = "ack"
           \/ \E custom_fields_data \in CustomFieldAnswers :
                LET contract_number == scan_contract_number(custom_fields_data)
                    scanned == [called EXCEPT !.fetched = TRUE,
                                              !.custom_fields_data = custom_fields_data,
                                              !.contract_number = contract_number]
                IN  IF ContractNumberFound(contract_number)
                    THEN /\ job' = scanned
                         /\ pc' = "job_sf_query"
                    ELSE /\ job' = Return(scanned, "false")
                         /\ pc' = "ack"
    /\ UNCHANGED << env, connUp, queue, unacked, inbox, nextTag, published,
                    acks, log, attachments, issued >>

\* lines 113-122: SOQL query for the contract, exactly one match expected
QuerySalesforce ==
    /\ pc = "job_sf_query"
    /\ LET called == [job EXCEPT !.calls = Append(@, Call("sf_query", job.sf_client)),
                                 !.soql_contract_number = job.contract_number]
       IN  \/ \* the query raises
              /\ job' = Return(called, "false")
              /\ pc' = "ack"
           \/ \E query_result \in QueryAnswers :
                LET answered == [called EXCEPT !.queried = TRUE,
                                               !.query_result = query_result]
                IN  IF ~SingleMatch(query_result)
                    THEN /\ job' = Return(answered, "false")
                         /\ pc' = "ack"
                    ELSE IF query_result.records = <<>>
                    THEN \* records[0] raises IndexError
                         /\ job' = Return(answered, "false")
                         /\ pc' = "ack"
                    ELSE /\ job' = [answered EXCEPT !.salesforce_contract_id =
                                                        query_result.records[1]]
                         /\ pc' = "job_document"
    /\ UNCHANGED << env, connUp, queue, unacked, inbox, nextTag, published,
                    acks, log, attachments, issued >>

\* lines 124-128: GET documents/combined
DownloadDocument ==
    /\ pc = "job_document"
    /\ LET called == [job EXCEPT !.calls = Append(@, Call("get_document", job.bearer))]
       IN  \/ \* raise_for_status raises
              /\ job' = Return(called, "false")
              /\ pc' = "ack"
           \/ \E doc_content_bytes \in Docs :
                /\ job' = [called EXCEPT !.downloaded = TRUE,
                                         !.doc_content_bytes = doc_content_bytes]
                /\ pc' = "job_attach"
    /\ UNCHANGED << env, connUp, queue, unacked, inbox, nextTag, published,
                    acks, log, attachments, issued >>

\* line 138: the CRM stores the record of every create request it accepts;
\* the worker looks for no earlier attachment before it sends the request
stored_unless_present(records, payload) ==
    IF \E i \in DOMAIN records : records[i] = payload
    THEN records ELSE Append(records, payload)
stored(records, payload) == Append(records, payload)

\* line 138 returned without raising
CreateSucceededAlways(created) == TRUE
CreateSucceeded(created) == created

\* lines 130-140: encode, build the payload, Attachment.create
UploadAttachment ==
    /\ pc = "job_attach"
    /\ LET payload == attachment_payload(job.salesforce_contract_id,
                                         job.contract_number, job.doc_content_bytes)
           called == [job EXCEPT !.calls = Append(@, Call("attachment_create", job.sf_client)),
                                 !.attachment_payload = payload]
       IN  \E created \in BOOLEAN :
             /\ attachments' = IF created THEN stored(attachments, payload)
                               ELSE attachments
             /\ job' = Return(called, IF CreateSucceeded(created) THEN "true" ELSE "false")
    /\ pc' = "ack"
    /\ UNCHANGED << env, connUp, queue, unacked, inbox, nextTag, published,
                    acks, log, issued >>

\* lines 161-166: the channel call the callback makes for an outcome
AckActionRequeue(delivery_tag, success) ==
    IF success
    THEN [method |-> "basic_ack", delivery_tag |-> delivery_tag, requeue |-> FALSE]
    ELSE [method |-> "basic_nack", delivery_tag |-> delivery_tag, requeue |-> TRUE]
AckAction(delivery_tag, success) ==
    IF success
    THEN [method |-> "basic_ack", delivery_tag |-> delivery_tag, requeue |-> FALSE]
    ELSE [method |-> "basic_nack", delivery_tag |-> delivery_tag, requeue |-> FALSE]

\* lines 161-166: ack on success, nack without requeue otherwise; on a closed
\* connection the channel call raises AMQPConnectionError
SendAck ==
    /\ pc = "ack"
    /\ LET action == AckAction(job.tag, job.result = "true")
           mine == {d \in unacked : d.tag = job.tag}
       IN  /\ acks' = Append(acks, action)
           /\ IF connUp
              THEN /\ unacked' = unacked \ mine
                   /\ queue' = IF action.requeue THEN InTagOrder(mine) \o queue ELSE queue
                   /\ log' = EndCallback("returned", job.result)
                   /\ pc' = "consuming"
              ELSE /\ UNCHANGED << unacked, queue >>
                   /\ log' = EndCallback("conn_error", job.result)
                   /\ pc' = "conn_error_sleep"
    /\ job' = NoJob
    /\ UNCHANGED << env, connUp, inbox, nextTag, published, attachments, issued >>

(* --------------------------- specification ----------------------------- *)
Next ==
    \/ Publish
    \/ Deliver
    \/ ConnectionLost
    \/ LoadConfig
    \/ Connect
    \/ NoticeConnectionLost
    \/ SleepAndExit
    \/ Interrupt
    \/ Callback
    \/ GetDocusignApiClient
    \/ GetSalesforceClient
    \/ GetCustomFields
    \/ QuerySalesforce
    \/ DownloadDocument
    \/ UploadAttachment
    \/ SendAck

Spec == Init /\ [][Next]_vars

(* ------------------------- reading the state --------------------------- *)
\* the delivery tags handed to the consumer so far
Tags == DOMAIN log

\* the number of basic_ack / basic_nack calls made for delivery tag t
AcksFor(t) == Cardinality({i \in DOMAIN acks : acks[i].delivery_tag = t})

\* the external operations the running job has called so far
Ops == {job.calls[i].op : i \in DOMAIN job.calls}
CallsOf(op) == Cardinality({i \in DOMAIN job.calls : job.calls[i].op = op})

\* the running job is for a completion event and has returned success
CompletedOk ==
    /\ pc = "ack"
    /\ job.webhook_data.event = COMPLETED
    /\ job.result = "true"

\* the custom-fields GET of the running job answered, with no contractNumber field
NoContractField ==
    /\ job.fetched
    /\ \A i \in DOMAIN job.custom_fields_data.textCustomFields :
         job.custom_fields_data.textCustomFields[i].name # CONTRACT_FIELD

\* base64 decoding, written from RFC 4648 and not from b64encode
CharIndex(c) == CHOOSE n \in 0..63 : Alphabet[n + 1] = c
RECURSIVE b64decode(_)
b64decode(cs) ==
    IF Len(cs) = 0 THEN <<>>
    ELSE LET a == CharIndex(cs[1])
             b == CharIndex(cs[2])
         IN  IF cs[3] = Pad /\ cs[4] = Pad
             THEN << a * 4 + b \div 16 >>
             ELSE IF cs[4] = Pad
             THEN << a * 4 + b \div 16, (b % 16) * 16 + CharIndex(cs[3]) \div 4 >>
             ELSE << a * 4 + b \div 16, (b % 16) * 16 + CharIndex(cs[3]) \div 4,
                     (CharIndex(cs[3]) % 4) * 64 + CharIndex(cs[4]) >>
                  \o b64decode(SubSeq(cs, 5, Len(cs)))

(* ------------------------------ claims --------------------------------- *)
\* C1: every delivery whose callback is over (it returned, or an exception left
\* it) has exactly one basic_ack or basic_nack call for its tag, and no delivery
\* ever has two.
C1_ExactlyOneAck ==
    \A t \in Tags :
        /\ AcksFor(t) <= 1
        /\ log[t].cb \in {"returned", "conn_error", "raised"} => AcksFor(t) = 1

\* C2: process_webhook_job never lets an exception escape: no job ends "raised".
C2_NoExceptionEscapes ==
    \A t \in Tags : log[t].result # "raised"

\* C3: the channel call made for a delivery matches what process_webhook_job
\* returned: basic_ack exactly for success, basic_nack with requeue=False exactly
\* for failure; a job that returned gets its call; nothing is ever requeued by
\* the consumer and no message is handed to the callback twice.
C3_AckMatchesOutcome ==
    /\ \A i \in DOMAIN acks :
         LET a == acks[i]
         IN  /\ a.delivery_tag \in Tags
             /\ log[a.delivery_tag].cb \in {"returned", "conn_error"}
             /\ (a.method = "basic_ack") <=> (log[a.delivery_tag].result = "true")
             /\ (a.method = "basic_nack") <=> (log[a.delivery_tag].result = "false")
             /\ a.requeue = FALSE
    /\ \A t \in Tags :
         log[t].cb \in {"returned", "conn_error"} => AcksFor(t) = 1
    /\ \A t, u \in Tags : log[t].id = log[u].id => t = u

\* one job was acknowledged and another one rejected
C3_Witness ==
    /\ \E i \in DOMAIN acks : acks[i].method = "basic_ack"
    /\ \E i \in DOMAIN acks :
         /\ acks[i].method = "basic_nack"
         /\ log[acks[i].delivery_tag].result = "false"

\* C4: a completion-event job returns success only if the envelope id was taken,
\* both clients were acquired, a contract number was found, the query returned
\* exactly one record, the document was downloaded and Attachment.create was
\* called and returned without error.
C4_SuccessOnlyIfAllSteps ==
    CompletedOk =>
        /\ job.envelope_id # None
        /\ job.bearer # 0 /\ job.sf_client # 0
        /\ job.fetched
        /\ job.contract_number \notin {None, ""}
        /\ \E i \in DOMAIN job.custom_fields_data.textCustomFields :
             /\ job.custom_fields_data.textCustomFields[i].name = CONTRACT_FIELD
             /\ job.custom_fields_data.textCustomFields[i].value = job.contract_number
        /\ job.queried
        /\ job.query_result.totalSize = 1 /\ Len(job.query_result.records) = 1
        /\ job.downloaded
        /\ CallsOf("attachment_create") = 1
        /\ attachments # <<>>
        /\ attachments[Len(attachments)] = job.attachment_payload

C4_Witness == CompletedOk

\* C5 as claimed: with no contractNumber field in the answer the job fails and
\* has made no CRM call at all (no login, no query, no create) and no download.
C5_NoCrmCallAtAll ==
    NoContractField =>
        /\ job.result = "false"
        /\ Ops \cap {"sf_login", "sf_query", "get_document", "attachment_create"} = {}

\* C5 amended: with no contractNumber field in the answer the job fails and makes
\* no CRM query, no attachment create and no document download; the CRM login
\* was already made, before the custom fields were fetched.
C5_NoQueryNoUpload ==
    NoContractField =>
        /\ pc = "ack"
        /\ job.result = "false"
        /\ Ops \cap {"sf_query", "get_document", "attachment_create"} = {}
        /\ [i \in DOMAIN job.calls |-> job.calls[i].op]
             = <<"token", "sf_login", "get_custom_fields">>

\* a non-empty field list without contractNumber was answered
C5_Witness ==
    /\ NoContractField
    /\ job.custom_fields_data.textCustomFields # <<>>
    /\ pc = "ack"

\* C6: a query answer whose size is not 1 makes the job fail, no record is
\* picked and Attachment.create is not called.
C6_NonSingletonFails ==
    (job.queried /\ job.query_result.totalSize # 1) =>
        /\ pc = "ack"
        /\ job.result = "false"
        /\ job.salesforce_contract_id = None
        /\ Ops \cap {"get_document", "attachment_create"} = {}
        /\ job.attachment_payload = NoPayload

\* the query answered two records
C6_Witness ==
    /\ job.queried
    /\ job.query_result.totalSize = 2
    /\ pc = "ack"

\* C7: a JSON object whose event is not the completion event (or that has no
\* event) makes the job return success without any external call.
C7_IgnoredEventNoCalls ==
    (job.tag # 0 /\ job.webhook_data.json = "object"
                 /\ job.webhook_data.event # COMPLETED) =>
        /\ pc = "ack"
        /\ job.result = "true"
        /\ job.calls = <<>>
        /\ job.bearer = 0 /\ job.sf_client = 0
        /\ job.attachment_payload = NoPayload

\* a payload with an envelope id and no event key was handled
C7_Witness ==
    /\ pc = "ack"
    /\ job.webhook_data.json = "object"
    /\ job.webhook_data.event = None
    /\ job.webhook_data.envelopeId = "E1"

\* C8: in a successful completion job the one create request has ParentId = the
\* Id of the single record of this job's query and Body = base64 of this job's
\* downloaded bytes, and that request is the record the CRM stored.
C8_PayloadFromThisJob ==
    CompletedOk =>
        /\ CallsOf("attachment_create") = 1
        /\ Len(job.query_result.records) = 1
        /\ job.attachment_payload.ParentId = job.query_result.records[1]
        /\ job.doc_content_bytes \in Docs
        /\ Len(job.attachment_payload.Body) % 4 = 0
        /\ b64decode(job.attachment_payload.Body) = job.doc_content_bytes
        /\ attachments[Len(attachments)] = job.attachment_payload

\* a second job succeeded with another record and another document than the first
C8_Witness ==
    /\ CompletedOk
    /\ Len(attachments) = 2
    /\ attachments[1].ParentId # attachments[2].ParentId
    /\ attachments[1].Body # attachments[2].Body

\* C9: the consumer holds at most one delivered and unacknowledged message; while
\* a callback runs that message is the running job's, and every earlier delivery
\* has had its ack or nack.
C9_OneAtATime ==
    /\ Cardinality(unacked) <= 1
    /\ Len(inbox) <= 1
    /\ pc \in InCallback =>
         /\ inbox = <<>>
         /\ job.tag \in Tags
         /\ \A d \in unacked : d.tag = job.tag
         /\ \A t \in Tags : t < job.tag => AcksFor(t) = 1
         /\ AcksFor(job.tag) = 0
    /\ pc \notin InCallback => job = NoJob

\* a message is ready on the queue while a job is running on an open connection
C9_Witness ==
    /\ pc \in JobSteps
    /\ connUp
    /\ Cardinality(unacked) = 1
    /\ queue # <<>>

\* C10: nothing a delivered message does ends the consumer loop: the process is
\* never brought down by an exception out of the callback.
C10_LoopSurvivesEveryMessage ==
    pc # "crashed"

\* C11: a completion-event object without data, or whose data has no envelopeId,
\* makes the job return failure before any client is acquired and before any
\* external call.
C11_MissingEnvelopeIdFails ==
    (/\ job.tag # 0
     /\ job.webhook_data.json = "object"
     /\ job.webhook_data.event = COMPLETED
     /\ \/ job.webhook_data.data = "absent"
        \/ job.webhook_data.data = "object" /\ job.webhook_data.envelopeId = None) =>
        /\ pc = "ack"
        /\ job.result = "false"
        /\ job.envelope_id = None
        /\ job.calls = <<>>
        /\ job.bearer = 0 /\ job.sf_client = 0

\* a completion event with a data object that has no envelopeId was handled
C11_Witness ==
    /\ pc = "ack"
    /\ job.webhook_data.event = COMPLETED
    /\ job.webhook_data.data = "object"
    /\ job.webhook_data.envelopeId = None

\* C12: processing is not idempotent: when a completion job uploads a payload
\* (ParentId, Name, Body) that an earlier job already attached, the create
\* request is sent all the same and the CRM ends with one more record, equal to
\* the earlier one.
C12_ReplayCreatesDuplicate ==
    [][ (/\ pc = "job_attach"
         /\ pc' = "ack"
         /\ job'.result = "true"
         /\ \E i \in DOMAIN attachments : attachments[i] = job'.attachment_payload) =>
            /\ CallsOf("attachment_create") = 0
            /\ job'.calls[Len(job'.calls)].op = "attachment_create"
            /\ Len(attachments') = Len(attachments) + 1
            /\ \E i \in DOMAIN attachments :
                 /\ attachments'[Len(attachments')].ParentId = attachments[i].ParentId
                 /\ attachments'[Len(attachments')].Name = attachments[i].Name
                 /\ attachments'[Len(attachments')].Body = attachments[i].Body
            /\ \A i \in DOMAIN attachments : attachments'[i] = attachments[i] ]_vars

\* the same message was processed twice with the same answers: two equal records
C12_Witness ==
    /\ CompletedOk
    /\ job.tag = 2
    /\ Len(attachments) = 2
    /\ attachments[1] = attachments[2]
    /\ attachments[2] = job.attachment_payload

\* the fields of the running job's answer that are named contractNumber
ContractFieldAt == {i \in DOMAIN job.custom_fields_data.textCustomFields :
                      job.custom_fields_data.textCustomFields[i].name = CONTRACT_FIELD}
FirstContractField ==
    job.custom_fields_data.textCustomFields[
        CHOOSE i \in ContractFieldAt : \A k \in ContractFieldAt : i <= k]
\* the job goes on to the CRM query, with contract number v
ProceedsToQueryWith(v) ==
    /\ job.contract_number = v
    /\ pc = "job_sf_query" \/ "sf_query" \in Ops
    /\ "sf_query" \in Ops => job.soql_contract_number = v

\* C13 as claimed: whenever the answer has a field named contractNumber the job
\* goes on to the CRM query with that field's value; not-found only without one.
C13_PresentFieldProceeds ==
    (job.fetched /\ ContractFieldAt # {}) =>
        \E i \in ContractFieldAt :
            ProceedsToQueryWith(job.custom_fields_data.textCustomFields[i].value)

\* C13 amended: the extraction takes the first field named contractNumber; the
\* job goes on to the CRM query with its value when that value is not empty, and
\* signals not-found (failure, no query) when there is no such field, no field
\* list, or the first such field has an empty value.
C13_FirstNonEmptyFieldProceeds ==
    job.fetched =>
        IF ContractFieldAt # {} /\ FirstContractField.value # ""
        THEN ProceedsToQueryWith(FirstContractField.value)
        ELSE /\ pc = "ack"
             /\ job.result = "false"
             /\ "sf_query" \notin Ops

\* the field was found behind another one and the query was made with its value
C13_Witness ==
    /\ job.fetched
    /\ Len(job.custom_fields_data.textCustomFields) = 2
    /\ job.custom_fields_data.textCustomFields[1].name # CONTRACT_FIELD
    /\ job.custom_fields_data.textCustomFields[2].name = CONTRACT_FIELD
    /\ "sf_query" \in Ops
    /\ job.soql_contract_number = "C-100"

\* C14: with RABBITMQ_URL absent or empty, or a required config.ini setting
\* missing, the process stops before main(): no connection is opened and no
\* message is consumed, acknowledged or rejected.
C14_ConfigErrorStopsStartup ==
    (\/ env.RABBITMQ_URL \in {None, ""}
     \/ ~env.configOk
     \/ ~env.serversOk) =>
        /\ pc \in {"import", "config_error"}
        /\ ~connUp
        /\ log = <<>>
        /\ acks = <<>>

\* C15 as claimed, its last part: no basic_ack / basic_nack call is ever made for
\* a delivery that was in flight when the connection failed (one the broker has
\* returned to the queue).
C15_NoAckForInFlightMessage ==
    \A t \in Tags :
        (\E i \in DOMAIN queue : queue[i].id = log[t].id) => AcksFor(t) = 0

\* C15 amended: after a broker connection failure (at connect time or while
\* consuming) the process pauses once and ends: it opens no second connection and
\* never enters main() again, and the handler makes no ack or nack call.  The one
\* call that can still be made for a delivery in flight at the failure is the
\* one that ends its running callback (lines 161-165): it raises the connection
\* error and changes nothing at the broker.
C15_ConnectionFailureEndsProcess ==
    [][ /\ pc = "conn_error_sleep" => pc' \in {"conn_error_sleep", "exited"}
        /\ pc = "exited" => pc' = "exited"
        /\ pc \in {"conn_error_sleep", "exited"} =>
             /\ acks' = acks
             /\ log' = log
             /\ attachments' = attachments
             /\ ~connUp /\ ~connUp'
        /\ pc' = "main" => pc \in {"import", "main"}
        /\ (connUp' /\ ~connUp) => pc = "main"
        /\ (~connUp /\ pc \in Consuming) =>
             /\ pc' \in Consuming \cup {"conn_error_sleep", "interrupted"}
             /\ pc = "consuming" => pc' \notin InCallback
             /\ acks' # acks =>
                  /\ pc = "ack"
                  /\ pc' = "conn_error_sleep"
                  /\ Len(acks') = Len(acks) + 1
                  /\ unacked' = unacked
                  /\ queue' = queue ]_vars

\* the connection failed during a job, the callback's ack call raised, the
\* process slept and ended, and the message is back on the queue
C15_Witness ==
    /\ pc = "exited"
    /\ \E t \in Tags :
         /\ log[t].cb = "conn_error"
         /\ AcksFor(t) = 1
         /\ \E i \in DOMAIN queue : queue[i].id = log[t].id

\* the order of the external calls in process_webhook_job
CallOrder == << "token", "sf_login", "get_custom_fields", "sf_query",
                "get_document", "attachment_create" >>
OpsInOrder == [i \in DOMAIN job.calls |-> job.calls[i].op]

\* C16: the external calls of one job are made at most once each and in the
\* fixed order; a call is made only after every earlier call and check
\* succeeded, so the job stops at its first hard error.
C16_CallsInOrderUntilFirstError ==
    /\ Len(job.calls) <= Len(CallOrder)
    /\ OpsInOrder = SubSeq(CallOrder, 1, Len(job.calls))
    /\ "sf_login" \in Ops => job.bearer # 0
    /\ "get_custom_fields" \in Ops => job.sf_client # 0
    /\ "sf_query" \in Ops => job.fetched /\ job.contract_number \notin {None, ""}
    /\ "get_document" \in Ops => job.queried /\ job.query_result.totalSize = 1
    /\ "attachment_create" \in Ops => job.downloaded
    /\ pc \in JobSteps => job.result = "none"
    /\ pc \notin InCallback => job.calls = <<>>

\* the document download failed: five calls were made and no upload
C16_Witness ==
    /\ pc = "ack"
    /\ job.result = "false"
    /\ Len(job.calls) = 5
    /\ ~job.downloaded

\* C17 as claimed, its first part: every completion job that reaches step 3 (its
\* envelope id was taken) has made exactly one token exchange and exactly one
\* CRM login by the time it returns.
C17_ExactlyOneTokenAndLogin ==
    (pc = "ack" /\ job.envelope_id # None) =>
        /\ CallsOf("token") = 1
        /\ CallsOf("sf_login") = 1

\* C17 amended: a completion job that reaches step 3 makes at most one token
\* exchange and at most one CRM login of its own, and exactly one of each before
\* its first e-signature GET; both GETs carry the bearer token obtained in this
\* job, both CRM calls use this job's session, a job starts with no credential
\* and each credential it obtains was never issued before.
C17_CredentialsPerJob ==
    /\ [](job.envelope_id # None =>
            /\ CallsOf("token") <= 1
            /\ CallsOf("sf_login") <= 1
            /\ "get_custom_fields" \in Ops =>
                 /\ CallsOf("token") = 1 /\ CallsOf("sf_login") = 1
                 /\ job.bearer # 0 /\ job.sf_client # 0
                 /\ job.bearer # job.sf_client
            /\ \A i \in DOMAIN job.calls :
                 /\ job.calls[i].op \in {"get_custom_fields", "get_document"} =>
                      job.calls[i].auth = job.bearer
                 /\ job.calls[i].op \in {"sf_query", "attachment_create"} =>
                      job.calls[i].auth = job.sf_client
            /\ job.bearer <= issued /\ job.sf_client <= issued)
    /\ [][ /\ issued' >= issued
           /\ (job'.bearer # job.bearer /\ job'.bearer # 0) =>
                /\ pc = "job_token" /\ job.bearer = 0
                /\ job'.bearer > issued /\ issued' = job'.bearer
           /\ (job'.sf_client # job.sf_client /\ job'.sf_client # 0) =>
                /\ pc = "job_sf_login" /\ job.sf_client = 0
                /\ job'.sf_client > issued /\ issued' = job'.sf_client
           /\ (pc = "consuming" /\ pc' \in InCallback) =>
                job'.bearer = 0 /\ job'.sf_client = 0 ]_vars

\* the second job downloads its document with its own token, the third issued
C17_Witness ==
    /\ job.tag = 2
    /\ "get_document" \in Ops
    /\ job.bearer = 3
    /\ job.sf_client = 4
    /\ issued = 4
====
